---- MODULE Spec2Model ----
(***************************************************************************)
(* Model of the binary search tree of src/src/bst.rs.                      *)
(*                                                                         *)
(* A tree is an Option<Box<Node<T>>>: None, or a node record with a value  *)
(* and two owned subtrees.  Every public method of BinarySearchTree is one *)
(* action; the recursive Node methods are RECURSIVE operators that return  *)
(* the rebuilt subtree, the way the Rust methods consume `self` and return *)
(* the replacement.  A call that recurses without end (stack overflow in a *)
(* debug build, an endless loop once the tail call is optimised) is the    *)
(* outcome Overflow: the call never returns to its caller.                 *)
(***************************************************************************)
EXTENDS Integers, Sequences, FiniteSets, TLC

\* ---- bounds ----
MaxListNodes == 3   \* LinkedList: no node is made while this many are allocated
MaxPending == 2     \* LinkedList::add_value is not called with this many values
                    \* added and not yet dequeued
MaxValue == 5       \* values are 1..MaxValue (T = u32 in the tests)
MaxNodes == 5       \* add_value is not called on a tree of more nodes
StackDepth == 8     \* nested calls of one method on one node before the stack
                    \* is exhausted (the descending methods never nest deeper
                    \* than the height of the tree, which stays below it)

Values == 1..MaxValue
Orders == {"Inorder", "Preorder", "Postorder"}

\* ---- Option<Box<Node<T>>> ----
None == [tag |-> "None"]
Overflow == [tag |-> "Overflow"]

\* Node::new
NewNode(value) ==
  [tag |-> "Some", value |-> value, left_branch |-> None, right_branch |-> None]

is_some(opt) == opt.tag = "Some"

\* ---- insertion ----
\* A faulty variant: an equal value is stored to the right instead of discarded.
RECURSIVE add_value_as_child_keeps_equal(_, _)
add_value_as_child_keeps_equal(self, value) ==
  IF value < self.value THEN
    IF is_some(self.left_branch)
      THEN [self EXCEPT !.left_branch = add_value_as_child_keeps_equal(self.left_branch, value)]
      ELSE [self EXCEPT !.left_branch = NewNode(value)]
  ELSE
    IF is_some(self.right_branch)
      THEN [self EXCEPT !.right_branch = add_value_as_child_keeps_equal(self.right_branch, value)]
      ELSE [self EXCEPT !.right_branch = NewNode(value)]

\* A faulty variant: the new node is put into the child slot at once, also
\* when the slot holds a subtree, which is lost.
add_value_as_child_overwrites(self, value) ==
  IF value < self.value THEN [self EXCEPT !.left_branch = NewNode(value)]
  ELSE IF value > self.value THEN [self EXCEPT !.right_branch = NewNode(value)]
  ELSE self

RECURSIVE add_value_as_child(_, _)
add_value_as_child(self, value) ==
  IF value < self.value THEN
    IF is_some(self.left_branch)
      THEN [self EXCEPT !.left_branch = add_value_as_child(self.left_branch, value)]
      ELSE [self EXCEPT !.left_branch = NewNode(value)]
  ELSE IF value > self.value THEN
    IF is_some(self.right_branch)
      THEN [self EXCEPT !.right_branch = add_value_as_child(self.right_branch, value)]
      ELSE [self EXCEPT !.right_branch = NewNode(value)]
  ELSE self

\* A faulty variant: a value smaller than the root's becomes the new root.
add_value_new_root(tree_root, value) ==
  IF is_some(tree_root)
    THEN IF value < tree_root.value
           THEN [NewNode(value) EXCEPT !.right_branch = tree_root]
           ELSE add_value_as_child(tree_root, value)
    ELSE NewNode(value)

add_value(tree_root, value) ==
  IF is_some(tree_root) THEN add_value_as_child(tree_root, value)
                        ELSE NewNode(value)

\* ---- removal ----
\* find_minimum_child_below recurses on `self`, not on the left child: with a
\* left child present every nested call sees the same node and recurses
\* again.  Without one it returns the reference to `self`.
RECURSIVE find_minimum_child_below(_, _)
find_minimum_child_below(self, depth) ==
  IF is_some(self.left_branch)
    THEN IF depth >= StackDepth THEN Overflow
         ELSE find_minimum_child_below(self, depth + 1)
    ELSE self

\* drop_misaligned_child: same shape, the else branch recurses on `self`.
RECURSIVE drop_misaligned_child(_, _)
drop_misaligned_child(self, depth) ==
  IF is_some(self.left_branch)
    THEN IF self.value < self.left_branch.value
           THEN [self EXCEPT !.left_branch = None]
           ELSE IF depth >= StackDepth THEN Overflow
                ELSE drop_misaligned_child(self, depth + 1)
    ELSE self

\* A faulty variant: a node with only a right child is replaced by None, and
\* its subtree is lost.
remove_self_from_tree_drops_child(self) ==
  LET left_child_exists == is_some(self.left_branch)
      right_child_exists == is_some(self.right_branch)
  IN IF ~left_child_exists THEN None
     ELSE IF ~right_child_exists THEN self.left_branch
     ELSE LET node_with_new_value == find_minimum_child_below(self.right_branch, 0)
          IN IF node_with_new_value = Overflow THEN Overflow
             ELSE LET swapped_right == [self.right_branch EXCEPT !.value = self.value]
                      dropped == drop_misaligned_child(swapped_right, 0)
                  IN IF dropped = Overflow THEN Overflow
                     ELSE [self EXCEPT !.value = node_with_new_value.value,
                                       !.right_branch = dropped]

\* remove_self_from_tree: the replacement for the slot that held `self`.
\* In the two-children case the reference returned by
\* find_minimum_child_below is the right child itself (the only node the
\* call can return), so the swap exchanges self.value with the right
\* child's value; drop_misaligned_child then runs on the right child.
remove_self_from_tree(self) ==
  LET left_child_exists == is_some(self.left_branch)
      right_child_exists == is_some(self.right_branch)
  IN IF ~left_child_exists
       THEN IF ~right_child_exists THEN None ELSE self.right_branch
     ELSE IF ~right_child_exists THEN self.left_branch
     ELSE LET node_with_new_value == find_minimum_child_below(self.right_branch, 0)
          IN IF node_with_new_value = Overflow THEN Overflow
             ELSE LET swapped_right == [self.right_branch EXCEPT !.value = self.value]
                      dropped == drop_misaligned_child(swapped_right, 0)
                  IN IF dropped = Overflow THEN Overflow
                     ELSE [self EXCEPT !.value = node_with_new_value.value,
                                       !.right_branch = dropped]

\* A faulty variant: the node where the search for an absent value stops is
\* removed as if it held the value.
RECURSIVE remove_value_if_child_any_stop(_, _)
remove_value_if_child_any_stop(self, value) ==
  IF value < self.value /\ is_some(self.left_branch) THEN
    LET r == remove_value_if_child_any_stop(self.left_branch, value)
    IN IF r = Overflow THEN Overflow ELSE [self EXCEPT !.left_branch = r]
  ELSE IF value > self.value /\ is_some(self.right_branch) THEN
    LET r == remove_value_if_child_any_stop(self.right_branch, value)
    IN IF r = Overflow THEN Overflow ELSE [self EXCEPT !.right_branch = r]
  ELSE remove_self_from_tree(self)

RECURSIVE remove_value_if_child(_, _)
remove_value_if_child(self, value) ==
  IF value < self.value /\ is_some(self.left_branch) THEN
    LET r == remove_value_if_child(self.left_branch, value)
    IN IF r = Overflow THEN Overflow ELSE [self EXCEPT !.left_branch = r]
  ELSE IF value > self.value /\ is_some(self.right_branch) THEN
    LET r == remove_value_if_child(self.right_branch, value)
    IN IF r = Overflow THEN Overflow ELSE [self EXCEPT !.right_branch = r]
  ELSE IF value = self.value THEN remove_self_from_tree(self)
  ELSE self

remove_value(tree_root, value) ==
  IF is_some(tree_root) THEN remove_value_if_child(tree_root, value)
                        ELSE tree_root

\* ---- traversal ----
\* A faulty variant: the right subtree is never collected.
RECURSIVE collectpeek_inorder_no_right(_, _)
collectpeek_inorder_no_right(opt_node, list) ==
  IF is_some(opt_node)
    THEN Append(collectpeek_inorder_no_right(opt_node.left_branch, list), opt_node.value)
    ELSE list

RECURSIVE collectpeek_inorder(_, _)
collectpeek_inorder(opt_node, list) ==
  IF is_some(opt_node)
    THEN collectpeek_inorder(opt_node.right_branch,
           Append(collectpeek_inorder(opt_node.left_branch, list), opt_node.value))
    ELSE list

\* A faulty variant: the right subtree is collected before the left one.
RECURSIVE collectpeek_preorder_right_first(_, _)
collectpeek_preorder_right_first(opt_node, list) ==
  IF is_some(opt_node)
    THEN collectpeek_preorder_right_first(opt_node.left_branch,
           collectpeek_preorder_right_first(opt_node.right_branch,
             Append(list, opt_node.value)))
    ELSE list

RECURSIVE collectpeek_preorder(_, _)
collectpeek_preorder(opt_node, list) ==
  IF is_some(opt_node)
    THEN collectpeek_preorder(opt_node.right_branch,
           collectpeek_preorder(opt_node.left_branch, Append(list, opt_node.value)))
    ELSE list

\* A faulty variant: the node's value is pushed before its right subtree.
RECURSIVE collectpeek_postorder_early_push(_, _)
collectpeek_postorder_early_push(opt_node, list) ==
  IF is_some(opt_node)
    THEN collectpeek_postorder_early_push(opt_node.right_branch,
           Append(collectpeek_postorder_early_push(opt_node.left_branch, list),
                  opt_node.value))
    ELSE list

RECURSIVE collectpeek_postorder(_, _)
collectpeek_postorder(opt_node, list) ==
  IF is_some(opt_node)
    THEN Append(collectpeek_postorder(opt_node.right_branch,
             collectpeek_postorder(opt_node.left_branch, list)), opt_node.value)
    ELSE list

collectpeek_traversal_values(tree_root, order) ==
  CASE order = "Inorder" -> collectpeek_inorder(tree_root, <<>>)
    [] order = "Preorder" -> collectpeek_preorder(tree_root, <<>>)
    [] order = "Postorder" -> collectpeek_postorder(tree_root, <<>>)

\* ======================================================================
\* src/src/linked_list.rs
\* ======================================================================
\* An Option<Rc<RefCell<Node>>> is <<>> (None) or <<id>> (a strong reference
\* to the node with that id); a Weak is the same, and upgrades while its node
\* is allocated.  `nodes` is the heap: the allocated nodes by id.  A node
\* stays allocated while a strong reference to it exists: the list's head,
\* the `next` of an allocated node, or a handle the caller holds.

Panic == [tag |-> "Panic"]

\* Node::new
ll_node_new(value) == [value |-> value, next |-> <<>>]

\* LinkedList::new
LinkedList_new == [head |-> <<>>, tail |-> <<>>, nodes |-> <<>>]

StrongCount(l, handles, id) ==
  (IF l.head = <<id>> THEN 1 ELSE 0)
    + (IF id \in handles THEN 1 ELSE 0)
    + Cardinality({m \in DOMAIN l.nodes : l.nodes[m].next = <<id>>})

\* Rc's drop: a node without strong references is freed, which drops its
\* `next` reference in turn.
RECURSIVE Release(_, _)
Release(l, handles) ==
  LET dead == {id \in DOMAIN l.nodes : StrongCount(l, handles, id) = 0}
  IN IF dead = {} THEN l
     ELSE Release([l EXCEPT !.nodes = [id \in DOMAIN l.nodes \ dead |-> l.nodes[id]]],
                  handles)

\* Weak::upgrade
upgrade(l, weak) ==
  IF weak # <<>> /\ weak[1] \in DOMAIN l.nodes THEN weak ELSE <<>>

\* Rc::new: the new allocation is none of the allocated nodes, nor the one
\* the tail Weak still keeps from being reused.
FreshId(l) ==
  CHOOSE n \in 1..(Cardinality(DOMAIN l.nodes) + 2) :
    /\ n \notin DOMAIN l.nodes
    /\ <<n>> # l.tail
    /\ \A m \in 1..(n - 1) : m \in DOMAIN l.nodes \/ <<m>> = l.tail

\* Node::new_ref_wrapped: the heap with the new node, and the reference to it.
new_ref_wrapped(l, value) ==
  LET n == FreshId(l)
  IN [list |-> [l EXCEPT !.nodes = [id \in DOMAIN l.nodes \cup {n} |->
                                      IF id = n THEN ll_node_new(value)
                                                ELSE l.nodes[id]]],
      rc |-> <<n>>]

\* Node::assign_next
assign_next(l, self, node) ==
  IF node # <<>> /\ node[1] = self THEN Panic
  ELSE [l EXCEPT !.nodes[self].next = node]

\* Node::get_next: the `next` taken out of the node, which keeps None.
get_next(l, self) ==
  [list |-> [l EXCEPT !.nodes[self].next = <<>>], rc |-> l.nodes[self].next]

\* A faulty variant: the tail is left as it was.
ll_add_value_keeps_tail(l, handles, value) ==
  LET made == new_ref_wrapped(l, value)
      node_ref == upgrade(l, l.tail)
  IN IF node_ref # <<>>
       THEN LET linked == assign_next(made.list, node_ref[1], made.rc)
            IN IF linked = Panic THEN Panic ELSE Release(linked, handles)
       ELSE Release([made.list EXCEPT !.head = made.rc], handles)

\* LinkedList::add_value
ll_add_value(l, handles, value) ==
  LET made == new_ref_wrapped(l, value)
      node_ref == upgrade(l, l.tail)
  IN IF node_ref # <<>>
       THEN LET linked == assign_next([made.list EXCEPT !.tail = made.rc],
                                      node_ref[1], made.rc)
            IN IF linked = Panic THEN Panic ELSE Release(linked, handles)
       ELSE Release([made.list EXCEPT !.tail = made.rc, !.head = made.rc], handles)

\* LinkedList::peek_head_value: <<>> (None) or <<value>>.
ll_peek_head_value(l) ==
  IF l.head # <<>> THEN <<l.nodes[l.head[1]].value>> ELSE <<>>

\* LinkedList::dequeue: the list after the call and the returned reference.
\* The returned node is still allocated: the caller holds it.
ll_dequeue(l) ==
  IF l.head # <<>>
    THEN LET taken == get_next(l, l.head[1])
         IN [list |-> [taken.list EXCEPT !.head = taken.rc], rc |-> l.head]
    ELSE [list |-> l, rc |-> <<>>]

\* A faulty variant: the given node does not take over the former successor.
splice_in_next_forgets_rest(l, self, node) ==
  IF node # <<>>
    THEN IF node[1] = self THEN Panic
         ELSE assign_next(l, self, node)
    ELSE assign_next(l, self, <<>>)

\* Node::splice_in_next, called as p.borrow_mut().splice_in_next(node): the
\* borrow_mut() of a node that is p itself panics (p is already borrowed).
splice_in_next(l, self, node) ==
  IF node # <<>>
    THEN IF node[1] = self THEN Panic
         ELSE LET given == assign_next(l, node[1], l.nodes[self].next)
              IN IF given = Panic THEN Panic ELSE assign_next(given, self, node)
    ELSE assign_next(l, self, <<>>)

\* ---- the traversal into the crate's LinkedList ----
RECURSIVE collectpeek_inorder_cratell(_, _)
collectpeek_inorder_cratell(opt_node, l) ==
  IF is_some(opt_node)
    THEN collectpeek_inorder_cratell(opt_node.right_branch,
           ll_add_value(collectpeek_inorder_cratell(opt_node.left_branch, l),
                        {}, opt_node.value))
    ELSE l

\* Preorder and Postorder are todo!(): the call panics.
collectpeek_traversal_values_cratell(tree_root, order) ==
  IF order = "Inorder" THEN collectpeek_inorder_cratell(tree_root, LinkedList_new)
  ELSE Panic

\* The methods of impl BinarySearchTree.  The header's checklist marks
\* find_value, min and height as not implemented, and the impl has none of them.
BinarySearchTree_methods ==
  {"new", "add_value", "remove_value", "collectpeek_traversal_values",
   "collectpeek_traversal_values_cratell"}

\* ---- helpers over trees ----
RECURSIVE NodeCount(_)
NodeCount(t) ==
  IF is_some(t) THEN 1 + NodeCount(t.left_branch) + NodeCount(t.right_branch) ELSE 0

\* ---- state ----
VARIABLES
  root,       \* BinarySearchTree.root
  returned,   \* FALSE once a call has failed to return (the process is gone)
  pre,        \* root as it was when the last call started
  lastOp,     \* the last call: [op, arg]
  list,       \* the Vec returned by the last traversal
  added,      \* every value passed to add_value so far
  ll,         \* a LinkedList: [head, tail, nodes]
  handles,    \* the nodes the caller holds an Rc to
  pending,    \* the values passed to LinkedList::add_value and not yet dequeued
  ll_pre      \* ll as it was when the last call started

llvars == <<ll, handles, pending, ll_pre>>

vars == <<root, returned, pre, lastOp, list, added, ll, handles, pending, ll_pre>>

Init ==
  /\ root = None
  /\ returned = TRUE
  /\ pre = None
  /\ lastOp = [op |-> "new", arg |-> 0]
  /\ list = <<>>
  /\ added = {}
  /\ ll = LinkedList_new
  /\ handles = {}
  /\ pending = <<>>
  /\ ll_pre = LinkedList_new

AddValue(value) ==
  /\ returned
  /\ NodeCount(root) < MaxNodes
  /\ root' = add_value(root, value)
  /\ pre' = root
  /\ lastOp' = [op |-> "add_value", arg |-> value]
  /\ list' = <<>>
  /\ added' = added \cup {value}
  /\ ll' = LinkedList_new
  /\ UNCHANGED <<returned, handles, pending, ll_pre>>

RemoveValue(value) ==
  /\ returned
  /\ LET r == remove_value(root, value)
     IN IF r = Overflow
          THEN root' = None /\ returned' = FALSE   \* root was take()n; no return
          ELSE root' = r /\ returned' = TRUE
  /\ pre' = root
  /\ lastOp' = [op |-> "remove_value", arg |-> value]
  /\ list' = <<>>
  /\ ll' = LinkedList_new
  /\ UNCHANGED <<added, handles, pending, ll_pre>>

\* A faulty variant: the output is not a fresh Vec but the one of the
\* traversal before, pushed onto again.
CollectPeek_reuses_list(order) ==
  /\ returned
  /\ Len(list) <= 2 * MaxNodes
  /\ list' = list \o collectpeek_traversal_values(root, order)
  /\ pre' = root
  /\ lastOp' = [op |-> "collectpeek_traversal_values", arg |-> order]
  /\ ll' = LinkedList_new
  /\ UNCHANGED <<root, returned, added, handles, pending, ll_pre>>

CollectPeek(order) ==
  /\ returned
  /\ list' = collectpeek_traversal_values(root, order)
  /\ pre' = root
  /\ lastOp' = [op |-> "collectpeek_traversal_values", arg |-> order]
  /\ ll' = LinkedList_new
  /\ UNCHANGED <<root, returned, added, handles, pending, ll_pre>>

\* The list returned by the last traversal into a LinkedList is kept in ll.
CollectPeekCratell(order) ==
  /\ returned
  /\ LET r == collectpeek_traversal_values_cratell(root, order)
     IN IF r = Panic
          THEN ll' = LinkedList_new /\ returned' = FALSE
          ELSE ll' = r /\ returned' = TRUE
  /\ pre' = root
  /\ lastOp' = [op |-> "collectpeek_traversal_values_cratell", arg |-> order]
  /\ list' = <<>>
  /\ UNCHANGED <<root, added, handles, pending, ll_pre>>

Next ==
  \/ \E value \in Values : AddValue(value)
  \/ \E value \in Values : RemoveValue(value)
  \/ \E order \in Orders : CollectPeek(order)
  \/ \E order \in Orders : CollectPeekCratell(order)

Spec == Init /\ [][Next]_vars

\* ---- insertions only ----
NextAdd ==
  \/ \E value \in Values : AddValue(value)
  \/ \E order \in Orders : CollectPeek(order)

SpecAdd == Init /\ [][NextAdd]_vars

\* ---- the tests' world: a tree built by add_value from the values of ----
\* ---- setup_bst(), then remove_value and traversals                  ----
setup_bst == <<4, 2, 6, 1, 3, 5>>

SetupValues == {setup_bst[i] : i \in 1..Len(setup_bst)}

RECURSIVE Build(_, _)
Build(tree_root, values) ==
  IF values = <<>> THEN tree_root
  ELSE Build(add_value(tree_root, Head(values)), Tail(values))

SetupTree == Build(None, setup_bst)

InsertOrders ==
  {s \in UNION {[1..n -> SetupValues] : n \in 0..Len(setup_bst)} :
     \A i, j \in DOMAIN s : i # j => s[i] # s[j]}

InitBuilt ==
  \E s \in InsertOrders :
    /\ root = Build(None, s)
    /\ returned = TRUE
    /\ pre = None
    /\ lastOp = [op |-> "new", arg |-> 0]
    /\ list = <<>>
    /\ added = {s[i] : i \in DOMAIN s}
    /\ ll = LinkedList_new
    /\ handles = {}
    /\ pending = <<>>
    /\ ll_pre = LinkedList_new

NextBuilt ==
  \/ \E value \in SetupValues : RemoveValue(value)
  \/ \E order \in Orders : CollectPeek(order)
  \/ \E order \in Orders : CollectPeekCratell(order)

SpecBuilt == InitBuilt /\ [][NextBuilt]_vars

\* ---- the linked list on its own ----
\* The values setup_linked_list() adds, and the value tests::splice_works
\* splices in.
ListValues == {2, 4}

SpliceValues == {6}

\* <<>> or <<the first of the values added and not yet dequeued>>
Oldest(queue) == IF queue = <<>> THEN <<>> ELSE <<Head(queue)>>

BstIdle == UNCHANGED <<root, pre, list, added>>

LLAddValue(value) ==
  /\ returned
  /\ Cardinality(DOMAIN ll.nodes) < MaxListNodes
  /\ Len(pending) < MaxPending
  /\ LET r == ll_add_value(ll, handles, value)
     IN IF r = Panic THEN ll' = ll /\ returned' = FALSE
                     ELSE ll' = r /\ returned' = TRUE
  /\ pending' = Append(pending, value)
  /\ ll_pre' = ll
  /\ lastOp' = [op |-> "LinkedList::add_value", arg |-> value]
  /\ UNCHANGED handles
  /\ BstIdle

\* dequeue(): the caller keeps the returned Rc (keep) or drops it at once.
LLDequeue(keep) ==
  /\ returned
  /\ LET d == ll_dequeue(ll)
         kept == IF keep /\ d.rc # <<>> THEN handles \cup {d.rc[1]} ELSE handles
     IN /\ handles' = kept
        /\ ll' = Release(d.list, kept)
        /\ lastOp' = [op |-> "LinkedList::dequeue", arg |-> keep,
                      ret |-> IF d.rc = <<>> THEN <<>>
                              ELSE <<ll.nodes[d.rc[1]].value>>,
                      oldest |-> Oldest(pending)]
  /\ pending' = IF pending = <<>> THEN pending ELSE Tail(pending)
  /\ ll_pre' = ll
  /\ UNCHANGED returned
  /\ BstIdle

LLPeekHeadValue ==
  /\ returned
  /\ lastOp' = [op |-> "LinkedList::peek_head_value", arg |-> 0,
                ret |-> ll_peek_head_value(ll), oldest |-> Oldest(pending)]
  /\ ll_pre' = ll
  /\ UNCHANGED <<ll, handles, pending, returned>>
  /\ BstIdle

\* The caller drops an Rc it holds.
LLDropHandle(id) ==
  /\ returned
  /\ id \in handles
  /\ handles' = handles \ {id}
  /\ ll' = Release(ll, handles \ {id})
  /\ ll_pre' = ll
  /\ lastOp' = [op |-> "drop", arg |-> id]
  /\ UNCHANGED <<pending, returned>>
  /\ BstIdle

NextQueue ==
  \/ \E value \in ListValues : LLAddValue(value)
  \/ \E keep \in BOOLEAN : LLDequeue(keep)
  \/ LLPeekHeadValue
  \/ \E id \in handles : LLDropHandle(id)

SpecQueue == Init /\ [][NextQueue]_vars

\* ---- the linked list with splices ----
\* Splicing looks at no value: the list is built from one value here.
\* The caller clones the list's public head field.
LLCloneHead ==
  /\ returned
  /\ ll.head # <<>>
  /\ ll.head[1] \notin handles
  /\ handles' = handles \cup {ll.head[1]}
  /\ ll_pre' = ll
  /\ lastOp' = [op |-> "head.clone", arg |-> ll.head[1]]
  /\ UNCHANGED <<ll, pending, returned>>
  /\ BstIdle

SpliceStep(p, r, node) ==
  /\ IF r = Panic THEN ll' = ll /\ returned' = FALSE
                  ELSE ll' = Release(r, handles) /\ returned' = TRUE
  /\ ll_pre' = ll
  /\ lastOp' = [op |-> "Node::splice_in_next", arg |-> p, node |-> node]
  /\ UNCHANGED <<handles, pending>>
  /\ BstIdle

\* p.borrow_mut().splice_in_next(Some(Node::new_ref_wrapped(value)))
LLSpliceNew(p, value) ==
  /\ returned
  /\ p \in handles
  /\ Cardinality(DOMAIN ll.nodes) < MaxListNodes
  /\ LET made == new_ref_wrapped(ll, value)
     IN SpliceStep(p, splice_in_next(made.list, p, made.rc), made.rc)

\* p.borrow_mut().splice_in_next(None)
LLSpliceNone(p) ==
  /\ returned
  /\ p \in handles
  /\ SpliceStep(p, splice_in_next(ll, p, <<>>), <<>>)

NextLL ==
  \/ LLAddValue(2)
  \/ \E keep \in BOOLEAN : LLDequeue(keep)
  \/ \E id \in handles : LLDropHandle(id)
  \/ LLCloneHead
  \/ \E p \in handles, value \in SpliceValues : LLSpliceNew(p, value)
  \/ \E p \in handles : LLSpliceNone(p)

SpecLL == Init /\ [][NextLL]_vars

\* ---- splices of nodes that are already linked ----
\* p.borrow_mut().splice_in_next(Some(q.clone())) for a node q the caller holds
LLSpliceHeld(p, q) ==
  /\ returned
  /\ p \in handles
  /\ q \in handles
  /\ SpliceStep(p, splice_in_next(ll, p, <<q>>), <<q>>)

NextHeld ==
  \/ NextLL
  \/ \E p \in handles, q \in handles : LLSpliceHeld(p, q)

SpecHeld == Init /\ [][NextHeld]_vars

\* ======================================================================
\* Properties
\* ======================================================================

\* ---- vocabulary of the properties ----
RECURSIVE ValuesOf(_)
ValuesOf(t) ==
  IF is_some(t)
    THEN {t.value} \cup ValuesOf(t.left_branch) \cup ValuesOf(t.right_branch)
    ELSE {}

RECURSIVE IsBST(_)
IsBST(t) ==
  \/ ~is_some(t)
  \/ /\ \A x \in ValuesOf(t.left_branch) : x < t.value
     /\ \A x \in ValuesOf(t.right_branch) : x > t.value
     /\ IsBST(t.left_branch)
     /\ IsBST(t.right_branch)

ChildCount(n) ==
  (IF is_some(n.left_branch) THEN 1 ELSE 0) + (IF is_some(n.right_branch) THEN 1 ELSE 0)

\* The slots a search for v descends through ("L"/"R"), from a present node
\* to the node where the search stops.
RECURSIVE SearchPath(_, _)
SearchPath(t, v) ==
  IF v < t.value /\ is_some(t.left_branch)
    THEN <<"L">> \o SearchPath(t.left_branch, v)
  ELSE IF v > t.value /\ is_some(t.right_branch)
    THEN <<"R">> \o SearchPath(t.right_branch, v)
  ELSE <<>>

RECURSIVE SubtreeAt(_, _)
SubtreeAt(t, path) ==
  IF path = <<>> THEN t
  ELSE SubtreeAt(IF Head(path) = "L" THEN t.left_branch ELSE t.right_branch, Tail(path))

RECURSIVE ReplaceAt(_, _, _)
ReplaceAt(t, path, sub) ==
  IF path = <<>> THEN sub
  ELSE IF Head(path) = "L"
    THEN [t EXCEPT !.left_branch = ReplaceAt(t.left_branch, Tail(path), sub)]
    ELSE [t EXCEPT !.right_branch = ReplaceAt(t.right_branch, Tail(path), sub)]

\* The node a search for v hits (the node holding v on the search path), or
\* None when the search ends without finding v.
HitNode(t, v) ==
  IF ~is_some(t) THEN None
  ELSE LET n == SubtreeAt(t, SearchPath(t, v))
       IN IF n.value = v THEN n ELSE None

RECURSIVE LeftmostValue(_)
LeftmostValue(t) ==
  IF is_some(t.left_branch) THEN LeftmostValue(t.left_branch) ELSE t.value

RECURSIVE WithoutLeftmost(_)
WithoutLeftmost(t) ==
  IF is_some(t.left_branch)
    THEN [t EXCEPT !.left_branch = WithoutLeftmost(t.left_branch)]
    ELSE t.right_branch

\* The strictly ascending sequence of the members of a set of numbers.
RECURSIVE Ascending(_)
Ascending(S) ==
  IF S = {} THEN <<>>
  ELSE LET m == CHOOSE x \in S : \A y \in S : x <= y
       IN <<m>> \o Ascending(S \ {m})

RECURSIVE PreorderOf(_)
PreorderOf(t) ==
  IF is_some(t)
    THEN <<t.value>> \o PreorderOf(t.left_branch) \o PreorderOf(t.right_branch)
    ELSE <<>>

Removed(op) == op.op = "remove_value"
Added(op) == op.op = "add_value"
Traversed(op, order) == op.op = "collectpeek_traversal_values" /\ op.arg = order

\* C1: after every sequence of add_value and remove_value calls on an
\* initially empty tree, every node's left subtree holds only smaller values
\* and its right subtree only greater values.
C1_StrictBstOrder == IsBST(root)

\* C2: a remove_value(v) of a value v present in a tree built by inserts
\* (a strict search tree) leaves a tree that no longer holds v and whose
\* value set is the original set minus v.
C2_RemovalCorrect ==
  (Removed(lastOp) /\ returned /\ IsBST(pre) /\ lastOp.arg \in ValuesOf(pre))
    => /\ lastOp.arg \notin ValuesOf(root)
       /\ ValuesOf(root) = ValuesOf(pre) \ {lastOp.arg}

\* C3: a remove_value(v) that hits a node with two children returns with that
\* node in place, holding the leftmost value of its right subtree, its left
\* subtree untouched and the leftmost node gone from its right subtree; from
\* the tree of setup_bst(), removing 4 gives inorder [1,2,3,5,6] and root 5.
C3_TwoChildrenSuccessor ==
  (Removed(lastOp) /\ is_some(pre) /\ is_some(HitNode(pre, lastOp.arg))
     /\ ChildCount(HitNode(pre, lastOp.arg)) = 2)
    => /\ returned
       /\ LET hit == HitNode(pre, lastOp.arg)
          IN root = ReplaceAt(pre, SearchPath(pre, lastOp.arg),
                      [hit EXCEPT !.value = LeftmostValue(hit.right_branch),
                                  !.right_branch = WithoutLeftmost(hit.right_branch)])
       /\ (pre = SetupTree /\ lastOp.arg = 4)
            => /\ collectpeek_traversal_values(root, "Inorder") = <<1, 2, 3, 5, 6>>
               /\ root.value = 5

\* C4: every remove_value call returns, whatever the tree and the value.
C4_RemoveTerminates == Removed(lastOp) => returned

\* C5: remove_value(v) of a value v that no node holds (the empty tree
\* included) returns and leaves the tree, and so every traversal of it, as
\* it was.
C5_AbsentRemovalNoOp ==
  (Removed(lastOp) /\ lastOp.arg \notin ValuesOf(pre))
    => /\ returned
       /\ root = pre
       /\ \A order \in Orders :
            collectpeek_traversal_values(root, order)
              = collectpeek_traversal_values(pre, order)

C5_Witness ==
  /\ Removed(lastOp)
  /\ lastOp.arg \notin ValuesOf(pre)
  /\ NodeCount(pre) >= 3
  /\ returned
  /\ root = pre

\* C6: after any sequence of add_value calls on an empty tree, duplicates
\* included, the Inorder traversal is the strictly ascending sequence of
\* the distinct values added.
C6_SortedInorder ==
  /\ collectpeek_traversal_values(root, "Inorder") = Ascending(added)
  /\ Traversed(lastOp, "Inorder") => list = Ascending(added)

C6_Witness ==
  /\ Traversed(lastOp, "Inorder")
  /\ list = <<1, 2, 3, 4>>
  /\ root.value = 3

\* C7: add_value(v) of a value v that some node of the tree already holds
\* leaves the tree as it was.
C7_DuplicateDiscarded ==
  (Added(lastOp) /\ lastOp.arg \in ValuesOf(pre)) => root = pre

\* C8: after every sequence of add_value and remove_value calls no two
\* nodes hold equal values.
C8_NoDuplicateValues == NodeCount(root) = Cardinality(ValuesOf(root))

\* C9: a remove_value(v) that hits a node with at most one child returns the
\* tree with that node's slot holding the node's only child subtree as it
\* was (None when the node has no child) and everything else unchanged.
C9_AtMostOneChild ==
  (Removed(lastOp) /\ is_some(pre) /\ is_some(HitNode(pre, lastOp.arg))
     /\ ChildCount(HitNode(pre, lastOp.arg)) <= 1)
    => /\ returned
       /\ LET hit == HitNode(pre, lastOp.arg)
          IN root = ReplaceAt(pre, SearchPath(pre, lastOp.arg),
                      IF is_some(hit.left_branch) THEN hit.left_branch
                                                  ELSE hit.right_branch)

C9_Witness ==
  /\ Removed(lastOp)
  /\ is_some(pre)
  /\ SearchPath(pre, lastOp.arg) # <<>>
  /\ LET hit == HitNode(pre, lastOp.arg)
     IN /\ is_some(hit)
        /\ ~is_some(hit.left_branch)
        /\ is_some(hit.right_branch)
        /\ ChildCount(hit.right_branch) >= 1
  /\ NodeCount(root) = NodeCount(pre) - 1

\* C10: the Preorder traversal lists a node's value, then its left subtree,
\* then its right subtree; for the tree of setup_bst() it is [4,2,1,3,6,5].
C10_Preorder ==
  /\ collectpeek_traversal_values(root, "Preorder") = PreorderOf(root)
  /\ Traversed(lastOp, "Preorder") => list = PreorderOf(root)
  /\ (Traversed(lastOp, "Preorder") /\ root = SetupTree)
       => list = <<4, 2, 1, 3, 6, 5>>

C10_Witness ==
  /\ Traversed(lastOp, "Preorder")
  /\ root = SetupTree
  /\ list = <<4, 2, 1, 3, 6, 5>>

RECURSIVE PostorderOf(_)
PostorderOf(t) ==
  IF is_some(t)
    THEN PostorderOf(t.left_branch) \o PostorderOf(t.right_branch) \o <<t.value>>
    ELSE <<>>

\* C11: the Postorder traversal lists a node's left subtree, then its right
\* subtree, then the node's value; for the tree of setup_bst() it is
\* [1,3,2,5,6,4].
C11_Postorder ==
  /\ collectpeek_traversal_values(root, "Postorder") = PostorderOf(root)
  /\ Traversed(lastOp, "Postorder") => list = PostorderOf(root)
  /\ (Traversed(lastOp, "Postorder") /\ root = SetupTree)
       => list = <<1, 3, 2, 5, 6, 4>>

C11_Witness ==
  /\ Traversed(lastOp, "Postorder")
  /\ root = SetupTree
  /\ list = <<1, 3, 2, 5, 6, 4>>

\* How many times each value occurs in a sequence, and in the nodes of a tree.
Occurrences(seq) ==
  [v \in {seq[i] : i \in DOMAIN seq} |-> Cardinality({i \in DOMAIN seq : seq[i] = v})]

RECURSIVE NodesHolding(_, _)
NodesHolding(t, v) ==
  IF is_some(t)
    THEN (IF t.value = v THEN 1 ELSE 0)
           + NodesHolding(t.left_branch, v) + NodesHolding(t.right_branch, v)
    ELSE 0

C14_NoOperationFails ==
  /\ returned
  /\ (lastOp.op = "collectpeek_traversal_values" /\ pre = None) => list = <<>>
  /\ (lastOp.op = "collectpeek_traversal_values_cratell" /\ pre = None)
       => ll.head = <<>>

\* The values a list yields when it is dequeued until dequeue returns None,
\* every returned node being dropped at once.
RECURSIVE DequeueAll(_)
DequeueAll(l) ==
  LET d == ll_dequeue(l)
  IN IF d.rc = <<>> THEN <<>>
     ELSE <<d.list.nodes[d.rc[1]].value>> \o DequeueAll(Release(d.list, {}))

\* C16: the LinkedList of the Inorder traversal, dequeued until empty, yields
\* the sequence the Vec of the Inorder traversal holds.
C16_CratellMatchesVec ==
  (lastOp.op = "collectpeek_traversal_values_cratell" /\ lastOp.arg = "Inorder")
    => /\ returned
       /\ DequeueAll(ll) = collectpeek_traversal_values(root, "Inorder")

C16_Witness ==
  /\ lastOp.op = "collectpeek_traversal_values_cratell"
  /\ lastOp.arg = "Inorder"
  /\ root = SetupTree
  /\ DequeueAll(ll) = <<1, 2, 3, 4, 5, 6>>

\* C15: in every interleaving of LinkedList::add_value and dequeue on a new
\* list, dequeue returns the added values in the order they were added, each
\* once, and None exactly when every added value has been dequeued: each
\* dequeue returns the oldest value added and not yet dequeued, if any.
C15_Fifo ==
  lastOp.op = "LinkedList::dequeue" => lastOp.ret = lastOp.oldest

\* C17: peek_head_value returns the oldest value added and not yet dequeued
\* (None when there is none) and leaves the list as it was.
C17_PeekOldest ==
  lastOp.op = "LinkedList::peek_head_value"
    => /\ lastOp.ret = lastOp.oldest
       /\ ll = ll_pre

\* The nodes from a reference on along `next`, at most `fuel` of them.
RECURSIVE ChainFrom(_, _, _)
ChainFrom(l, rc, fuel) ==
  IF rc = <<>> \/ fuel = 0 THEN <<>>
  ELSE <<rc[1]>> \o ChainFrom(l, l.nodes[rc[1]].next, fuel - 1)

\* The list from head on; Acyclic when it ends in None.
Chain(l) == ChainFrom(l, l.head, Cardinality(DOMAIN l.nodes))

Acyclic(l) ==
  Len(ChainFrom(l, l.head, Cardinality(DOMAIN l.nodes) + 1))
    <= Cardinality(DOMAIN l.nodes)

InChain(l, id) == \E i \in DOMAIN Chain(l) : Chain(l)[i] = id

InsertAfter(seq, p, n) ==
  LET i == CHOOSE k \in DOMAIN seq : seq[k] = p
  IN SubSeq(seq, 1, i) \o <<n>> \o SubSeq(seq, i + 1, Len(seq))

SplicedFresh(op) ==
  /\ op.op = "Node::splice_in_next"
  /\ op.node # <<>>
  /\ op.node[1] \notin DOMAIN ll_pre.nodes

\* C18: splice_in_next(Some(n)) on a list node p with a fresh node n makes n
\* the successor of p and p's former successor the successor of n; every
\* other node keeps its value and successor, so the list is the list before
\* with n right after p.
C18_SpliceFresh ==
  (SplicedFresh(lastOp) /\ InChain(ll_pre, lastOp.arg))
    => LET p == lastOp.arg
           n == lastOp.node[1]
       IN /\ returned
          /\ ll.nodes[p].next = <<n>>
          /\ ll.nodes[n].next = ll_pre.nodes[p].next
          /\ ll.nodes[p].value = ll_pre.nodes[p].value
          /\ ll.head = ll_pre.head
          /\ \A id \in DOMAIN ll_pre.nodes \ {p} :
               id \in DOMAIN ll.nodes /\ ll.nodes[id] = ll_pre.nodes[id]
          /\ Acyclic(ll_pre) => Chain(ll) = InsertAfter(Chain(ll_pre), p, n)

C18_Witness ==
  /\ SplicedFresh(lastOp)
  /\ InChain(ll_pre, lastOp.arg)
  /\ ll_pre.nodes[lastOp.arg].next # <<>>
  /\ Len(Chain(ll)) = 3
  /\ Chain(ll)[2] = lastOp.node[1]
  /\ ll.nodes[lastOp.node[1]].value = 6

\* C19: the first value added to an empty tree becomes the root, and no
\* later add_value changes the value the root node holds.
C19_RootKept ==
  Added(lastOp)
    => /\ ~is_some(pre) => root = NewNode(lastOp.arg)
       /\ is_some(pre) => (is_some(root) /\ root.value = pre.value)
       /\ root = SetupTree => root.value = 4

C19_Witness ==
  /\ Added(lastOp)
  /\ NodeCount(pre) >= 2
  /\ NodeCount(root) = NodeCount(pre) + 1
  /\ lastOp.arg < pre.value
  /\ root.value = pre.value

\* C20: the tree offers contains(value) (find_value in the header's
\* checklist), true exactly when some node holds an equal value.
C20_ContainsOffered ==
  \A v \in ValuesOf(root) :
    \E m \in BinarySearchTree_methods : m \in {"contains", "find_value"}

\* C21: the tree offers height(): 0 for the empty tree, 1 for a single node,
\* 1 + the greater of the children's heights otherwise.  For every tree, the
\* empty one included, there is a height to call.
C21_HeightOffered ==
  NodeCount(root) >= 0 => "height" \in BinarySearchTree_methods

\* C22: the tree offers min(): it follows left children from the root to the
\* node without a left child and returns its value, the smallest one stored
\* (absent on the empty tree).  The one search for a minimum the code has,
\* Node::find_minimum_child_below, is held to the same result.
C22_MinOffered ==
  /\ NodeCount(root) >= 0 => "min" \in BinarySearchTree_methods
  /\ is_some(root)
       => LET found == find_minimum_child_below(root, 0)
          IN found # Overflow /\ found.value = LeftmostValue(root)

\* The child slots of a tree that hold no node (the root slot of the empty
\* tree), as paths from the root.
RECURSIVE AbsentSlots(_)
AbsentSlots(t) ==
  IF is_some(t)
    THEN {<<"L">> \o p : p \in AbsentSlots(t.left_branch)}
           \cup {<<"R">> \o p : p \in AbsentSlots(t.right_branch)}
    ELSE {<<>>}

\* C23: on every tree reachable by add_value and remove_value calls,
\* add_value(v) of a value v the tree does not hold puts one new childless
\* node holding v into a slot that was absent and changes nothing else;
\* afterwards the Inorder traversal holds v exactly once.
C23_AddsOneLeaf ==
  (Added(lastOp) /\ lastOp.arg \notin ValuesOf(pre))
    => /\ \E path \in AbsentSlots(pre) :
            root = ReplaceAt(pre, path, NewNode(lastOp.arg))
       /\ NodeCount(root) = NodeCount(pre) + 1
       /\ Occurrences(collectpeek_traversal_values(root, "Inorder"))[lastOp.arg] = 1

\* A value is added below the root of a tree that a removal has changed.
C23_Witness ==
  /\ Added(lastOp)
  /\ lastOp.arg \notin ValuesOf(pre)
  /\ NodeCount(pre) >= 3
  /\ \E v \in added : v \notin ValuesOf(root)
  /\ ~IsBST(pre)
  /\ \E path \in AbsentSlots(pre) :
       Len(path) >= 2 /\ root = ReplaceAt(pre, path, NewNode(lastOp.arg))

\* The nodes reached from a node by following `next` at least once.
Successors(l, id) ==
  LET chain == ChainFrom(l, l.nodes[id].next, Cardinality(DOMAIN l.nodes))
  IN {chain[i] : i \in DOMAIN chain}

\* C24: with `next` changed only by add_value, dequeue and splice_in_next
\* (given any node, one already linked included), no node is ever reachable
\* from itself along `next`: a call that would link one so panics instead.
C24_NoCycle ==
  \A id \in DOMAIN ll.nodes : id \notin Successors(ll, id)

\* The values of the nodes from head on.
ChainValues(l) == [i \in DOMAIN Chain(l) |-> l.nodes[Chain(l)[i]].value]

\* C25: after every sequence of add_value, dequeue and splice_in_next (of a
\* node or of None) the tail reference upgrades to the last node of the list
\* from head, or fails to upgrade while head is None; so an add_value keeps
\* every value that was reachable from head, in place, with the new one last.
C25_TailIsLast ==
  /\ LET node_ref == upgrade(ll, ll.tail)
     IN IF node_ref # <<>>
          THEN Chain(ll) # <<>> /\ Chain(ll)[Len(Chain(ll))] = node_ref[1]
          ELSE ll.head = <<>>
  /\ lastOp.op = "LinkedList::add_value"
       => ChainValues(ll) = Append(ChainValues(ll_pre), lastOp.arg)

\* C26: once dequeue calls have emptied a list, the next add_value(v) makes
\* v the head, so that peek_head_value and the next dequeue return v, whether
\* the caller still holds the dequeued nodes or not.
C26_AddAfterEmptied ==
  (/\ lastOp.op = "LinkedList::add_value"
   /\ ll_pre.tail # <<>>
   /\ pending = <<lastOp.arg>>)
    => /\ ll_peek_head_value(ll) = <<lastOp.arg>>
       /\ LET d == ll_dequeue(ll)
          IN d.rc # <<>> /\ ll.nodes[d.rc[1]].value = lastOp.arg

====
